---- MODULE Spec2Model ----
(***************************************************************************)
(* A model of AsanaClient (src/main.py): the project cache and its refresh *)
(* policy (fetch_projects), the configuration store (save_config,          *)
(* is_configured), the hold-date parser (is_on_hold), the view filter      *)
(* (filter_projects, display_projects) and the note writer (add_note).     *)
(*                                                                         *)
(* fetch_projects is a coroutine.  Its only suspension point is            *)
(* `await asyncio.sleep(retry_delay)`, so a call runs atomically from its  *)
(* entry to its first return or sleep, and from each wake-up to the next   *)
(* return or sleep.  Several calls may be suspended at the same time.      *)
(*                                                                         *)
(* A Python Optional is a sequence of length 0 (None) or 1 (a value).      *)
(* A Python str is the sequence of its characters.                         *)
(* A Python list object is a record [obj, items]: obj is its identity.     *)
(***************************************************************************)
EXTENDS Integers, Sequences, FiniteSets, TLC

VARIABLES
    now,              \* the clock read by time.time()
    ncalls,           \* how many fetch_projects calls were started
    remote,           \* the workspace's project listing at the remote source, in pages
    config,           \* AsanaClient.config
    projects_api,     \* AsanaClient.projects_api
    cached_projects,  \* AsanaClient.cached_projects
    last_fetch_time,  \* AsanaClient.last_fetch_time
    fetched_with,     \* the token and workspace the cached list was fetched with
    pc,               \* per caller: "idle", or "sleeping" (in asyncio.sleep)
    current_time,     \* per caller: local current_time
    attempt,          \* per caller: local loop variable attempt
    retry_delay,      \* per caller: local retry_delay
    all_projects,     \* per caller: local all_projects
    wakeAt,           \* per caller: the time at which asyncio.sleep returns
    calls,            \* per caller: remote listing calls made by the call in progress
    delay,            \* per caller: total time the call in progress asked to sleep
    hist,             \* per caller: the outcomes of the attempts of the call in progress
    force,            \* the force argument of the call entered in the last step
    last,             \* the call that returned in the last step, and what it did
    refreshed,        \* whether a refresh has ever completed successfully
    project,          \* the project dict handed to is_on_hold
    today,            \* date.today()
    held,             \* what is_on_hold returned for project, if it was called
    shown,            \* what the last call of filter_projects or display_projects did
    remote_notes,     \* per project gid: its notes at the remote source
    added,            \* what the last call of add_note did
    remote_color,     \* per project gid: its colour at the remote source
    changed           \* what the last call of change_color did

cacheVars  == <<cached_projects, last_fetch_time, fetched_with>>
envVars    == <<now, remote, config, projects_api>>
callerVars == <<pc, current_time, attempt, retry_delay, all_projects,
                wakeAt, calls, delay, hist>>
holdVars   == <<project, today, held, shown>>
noteVars   == <<remote_notes, added, remote_color, changed>>
vars       == <<envVars, ncalls, cacheVars, callerVars, force, last, refreshed,
               holdVars, noteVars>>

(***************************************************************************)
(* Bounds of the model.                                                    *)
(***************************************************************************)
MaxCalls == 2
MaxProjects == 2
MaxDirectives == 2
MaxSnapshot == 2
MaxLines == 6
MaxNotes == 2
MaxName == 4

(***************************************************************************)
(* Program constants.                                                      *)
(***************************************************************************)
cache_duration == 300
max_retries    == 3
first_retry_delay == 1
PageLimit      == 100
UNAVAILABLE    == 503
SERVER_ERROR   == 500

None     == <<>>
Some(v)  == <<v>>
Val(o)   == o[1]

\* The characters of the texts the program handles.
Digits  == {"0", "1", "2", "3", "4", "5", "6", "7", "8", "9"}
Uppers  == {"A", "D", "F", "H", "I", "J", "L", "O", "P", "S", "X", "Y", "Z"}
Lowers  == {"a", "d", "f", "h", "i", "j", "l", "o", "p", "s", "x", "y", "z"}
Spaces  == {" ", "\n", "\t"}                  \* \s
WordChars == Digits \cup Uppers \cup Lowers \cup {"_"}   \* \w
Slashes == {"/"}

DigitVal == ("0" :> 0) @@ ("1" :> 1) @@ ("2" :> 2) @@ ("3" :> 3) @@ ("4" :> 4)
            @@ ("5" :> 5) @@ ("6" :> 6) @@ ("7" :> 7) @@ ("8" :> 8) @@ ("9" :> 9)

UpperOf == ("a" :> "A") @@ ("d" :> "D") @@ ("h" :> "H") @@ ("j" :> "J")
           @@ ("l" :> "L") @@ ("o" :> "O") @@ ("p" :> "P") @@ ("x" :> "X")
           @@ ("y" :> "Y") @@ ("z" :> "Z") @@ ("f" :> "F") @@ ("i" :> "I")
           @@ ("s" :> "S")

\* str.upper()
upper(str) ==
    [i \in 1..Len(str) |-> IF str[i] \in DOMAIN UpperOf THEN UpperOf[str[i]] ELSE str[i]]

\* The calls of fetch_projects that can be in progress together: call slots,
\* of which a new call takes the first free one.
Callers  == {1, 2}
Keys     == {"token", "workspace", "initials"}
\* The values save_config is called with: the empty string and a non-empty one.
KeyValues == {<<>>, <<"x">>}

RECURSIVE Flatten(_)
Flatten(pages) ==
    IF pages = <<>> THEN <<>> ELSE Head(pages) \o Flatten(Tail(pages))

\* The projects n, n-1, .., 1, one per page: the remote source returns at most
\* `limit' projects per page.
RECURSIVE Desc(_)
Desc(n) == IF n = 0 THEN <<>> ELSE <<(<<n>>)>> \o Desc(n - 1)

\* The listings the remote source may hold: no project, one page, or
\* MaxProjects pages.
Listings == {Desc(0), Desc(1), Desc(MaxProjects)}

PagesOK(pages) == \A i \in 1..Len(pages) : Len(pages[i]) \in 1..PageLimit

\* Page requests needed to drain a listing: an empty listing takes one.
NumRequests(pages) == IF pages = <<>> THEN 1 ELSE Len(pages)

\* A complete configuration, as _load_config finds it in the environment.
AllSet == [k \in Keys |-> Some(IF k = "initials" THEN <<"X">> ELSE <<"x">>)]

\* Truthiness of an Optional[str], as all(self.config.values()) tests it.
Truthy(o) == o # None /\ Val(o) # <<>>

is_configured == \A k \in Keys : Truthy(config[k])

\* What a listing call is made with: the access token projects_api was built
\* with (_init_asana, line 149) and config["workspace"] (line 207).
Credentials == [token |-> projects_api, workspace |-> config["workspace"]]

\* The configuration test with a bug: only the API client is looked at.
CanFetch_ApiOnly == projects_api # None

\* The configuration test of fetch_projects.
CanFetch == is_configured /\ projects_api # None

\* The fast path with a bug: the age is compared with the duration in minutes.
CacheHit_Minutes(frc, cur) ==
    /\ ~frc
    /\ cached_projects # None
    /\ last_fetch_time # None
    /\ cur - Val(last_fetch_time) < cache_duration \div 60

\* The fast path of fetch_projects.
CacheHit(frc, cur) ==
    /\ ~frc
    /\ cached_projects # None
    /\ last_fetch_time # None
    /\ cur - Val(last_fetch_time) < cache_duration

\* except clause with a bug: every ApiException is retried.
ShouldRetry_AnyStatus(status, att) == att < max_retries - 1

\* except clause: retry only a 503 that is not the last attempt.
ShouldRetry(status, att) == status = UNAVAILABLE /\ att < max_retries - 1

\* Backoff with a bug: the delay is not doubled.
NextDelay_Constant(d) == d

\* retry_delay *= 2
NextDelay(d) == d * 2

\* What one attempt appends to all_projects: the whole listing when the drain
\* succeeds, the pages before the failing request when it raises.
Drained(out) ==
    IF out.ok THEN Flatten(remote)
    ELSE Flatten(SubSeq(remote, 1, out.page))

\* all_projects as an attempt that starts with the list `allp' leaves it.
Collected(allp, out) == [allp EXCEPT !.items = @ \o Drained(out)]

\* What the remote source may answer to one listing attempt: the whole listing
\* (ok, recorded in hist as status 0), or an ApiException with a status raised
\* by the request for page number `page' (counted from 0).  The failing request
\* is the last one of the drain: the first request when the listing has at most
\* one page (nothing was fetched before it), a later one when it has more.
Outcomes ==
    {[ok |-> TRUE, status |-> 0, page |-> 0]}
    \cup {[ok |-> FALSE, status |-> s, page |-> NumRequests(remote) - 1] :
            s \in {UNAVAILABLE, SERVER_ERROR}}

\* The locals of fetch_projects before a call and after its return.
NoList == [obj |-> 0, items |-> <<>>]

\* No call returned in the last step.
NoCall == [caller |-> 0, result |-> None, calls |-> 0,
           delay |-> 0, hist |-> <<>>, hit |-> FALSE]

\* The clock, the counters and the callers at the start, and projects_api as
\* _load_config leaves it.
StartOfCalls ==
    /\ now = 0
    /\ ncalls = 0
    /\ projects_api = IF is_configured THEN Some(Val(config["token"])) ELSE None
    /\ pc = [c \in Callers |-> "idle"]
    /\ current_time = [c \in Callers |-> 0]
    /\ attempt = [c \in Callers |-> 0]
    /\ retry_delay = [c \in Callers |-> first_retry_delay]
    /\ all_projects = [c \in Callers |-> NoList]
    /\ wakeAt = [c \in Callers |-> 0]
    /\ calls = [c \in Callers |-> 0]
    /\ delay = [c \in Callers |-> 0]
    /\ hist = [c \in Callers |-> <<>>]
    /\ force = None
    /\ last = NoCall

\* AsanaClient.__init__: nothing is cached.
ClientInit ==
    /\ StartOfCalls
    /\ cached_projects = None
    /\ last_fetch_time = None
    /\ fetched_with = None
    /\ refreshed = FALSE

\* The cache engine: the configuration is complete or lacks the token, and
\* is_on_hold is not called.
Init ==
    /\ remote \in Listings
    /\ config \in {AllSet, [AllSet EXCEPT !["token"] = None]}
    /\ ClientInit
    /\ project = [notes |-> None]
    /\ today = [y |-> 2026, m |-> 11, d |-> 6]
    /\ held = None
    /\ shown = None
    /\ remote_notes = <<>>
    /\ added = None
    /\ remote_color = <<>>
    /\ changed = None

\* The instants at which the passing of time changes what a step can do: the
\* wake-up times of the suspended calls, the last instant at which the snapshot
\* is younger than cache_duration, and the instant at which it no longer is.
Instants ==
    {wakeAt[c] : c \in {x \in Callers : pc[x] = "sleeping"}}
    \cup (IF last_fetch_time = None THEN {}
          ELSE {Val(last_fetch_time) + cache_duration - 1,
                Val(last_fetch_time) + cache_duration})

\* Time passes, up to one of these instants.
Tick(t) ==
    /\ t > now
    /\ now' = t
    /\ force' = None
    /\ last' = NoCall
    /\ UNCHANGED <<remote, config, projects_api, ncalls, cacheVars,
                   callerVars, refreshed, holdVars, noteVars>>

\* AsanaClient.save_config
save_config(key, value) ==
    /\ config' = [config EXCEPT
                    ![key] = Some(IF key = "initials" THEN upper(value) ELSE value)]
    /\ projects_api' = IF \A k \in Keys : Truthy(config'[k])
                       THEN Some(Val(config'["token"]))
                       ELSE projects_api
    /\ force' = None
    /\ last' = NoCall
    /\ UNCHANGED <<now, remote, ncalls, cacheVars, callerVars, refreshed,
                   holdVars, noteVars>>

\* Caller c returns `value': its locals are gone, and what the call did is kept
\* in `last' (ncl remote listing calls, dl time units of sleep, the attempts'
\* outcomes hs, and whether it took the fast path).
Return(c, value, ncl, dl, hs, fast) ==
    /\ last' = [caller |-> c, result |-> value, calls |-> ncl,
                delay |-> dl, hist |-> hs, hit |-> fast]
    /\ pc' = [pc EXCEPT ![c] = "idle"]
    /\ calls' = [calls EXCEPT ![c] = 0]
    /\ delay' = [delay EXCEPT ![c] = 0]
    /\ hist' = [hist EXCEPT ![c] = <<>>]
    /\ current_time' = [current_time EXCEPT ![c] = 0]
    /\ attempt' = [attempt EXCEPT ![c] = 0]
    /\ retry_delay' = [retry_delay EXCEPT ![c] = first_retry_delay]
    /\ all_projects' = [all_projects EXCEPT ![c] = NoList]
    /\ wakeAt' = [wakeAt EXCEPT ![c] = 0]

\* Lines 216-217 with a bug: the list is cached and the time stamp is not set.
Install_NoStamp(got, cur) ==
    /\ cached_projects' = Some(got)
    /\ UNCHANGED last_fetch_time
    /\ fetched_with' = Some(Credentials)

\* Lines 216-217: install the drained list as the cache and stamp it.
Install(got, cur) ==
    /\ cached_projects' = Some(got)
    /\ last_fetch_time' = Some(cur)
    /\ fetched_with' = Some(Credentials)

\* Lines 227-230 with a bug: a failed refresh drops the cache.
OnFailure_DropsCache ==
    /\ cached_projects' = None
    /\ last_fetch_time' = None
    /\ fetched_with' = None

\* Lines 227-230: a failed refresh prints the exception and returns None.
OnFailure == UNCHANGED cacheVars

(***************************************************************************)
(* One pass of the retry loop of fetch_projects for caller c, made with    *)
(* the locals cur (current_time), att (attempt), rd (retry_delay) and allp *)
(* (all_projects) at time t, and answered by the remote source with `out'. *)
(* ncl, dl and hs are what the call did before this pass.                  *)
(***************************************************************************)
AttemptAt(t, c, cur, att, rd, allp, out, ncl, dl, hs) ==
    LET got == Collected(allp, out) IN
    IF out.ok
    THEN /\ Install(got, cur)
         /\ Return(c, Some(got), ncl + 1, dl, Append(hs, out.status), FALSE)
         /\ refreshed' = TRUE
    ELSE IF ShouldRetry(out.status, att)
    THEN /\ pc' = [pc EXCEPT ![c] = "sleeping"]
         /\ wakeAt' = [wakeAt EXCEPT ![c] = t + rd]
         /\ current_time' = [current_time EXCEPT ![c] = cur]
         /\ attempt' = [attempt EXCEPT ![c] = att]
         /\ retry_delay' = [retry_delay EXCEPT ![c] = rd]
         /\ all_projects' = [all_projects EXCEPT ![c] = got]
         /\ calls' = [calls EXCEPT ![c] = ncl + 1]
         /\ delay' = [delay EXCEPT ![c] = dl + rd]
         /\ hist' = [hist EXCEPT ![c] = Append(hs, out.status)]
         /\ last' = NoCall
         /\ UNCHANGED <<cacheVars, refreshed>>
    ELSE /\ Return(c, None, ncl + 1, dl, Append(hs, out.status), FALSE)
         /\ OnFailure
         /\ UNCHANGED refreshed

\* AsanaClient.fetch_projects, from its entry to its first return or sleep.
fetch_projects(c, frc) ==
    /\ pc[c] = "idle"
    /\ \A d \in Callers : d < c => pc[d] # "idle"
    /\ ncalls < MaxCalls
    /\ ncalls' = ncalls + 1
    /\ force' = Some(frc)
    /\ UNCHANGED <<envVars, holdVars, noteVars>>
    /\ IF CacheHit(frc, now)
       THEN /\ Return(c, cached_projects, 0, 0, <<>>, TRUE)
            /\ UNCHANGED <<cacheVars, refreshed>>
       ELSE IF ~CanFetch
       THEN /\ Return(c, None, 0, 0, <<>>, FALSE)
            /\ UNCHANGED <<cacheVars, refreshed>>
       ELSE \E out \in Outcomes :
               AttemptAt(now, c, now, 0, first_retry_delay,
                       [obj |-> ncalls + 1, items |-> <<>>], out, 0, 0, <<>>)

\* AsanaClient.fetch_projects, from the return of asyncio.sleep to the next
\* return or sleep: the sleep lasts at least as long as it was asked to.
fetch_projects_resume(c) ==
    /\ pc[c] = "sleeping"
    /\ now >= wakeAt[c]
    /\ force' = None
    /\ UNCHANGED <<envVars, ncalls, holdVars, noteVars>>
    /\ \E out \in Outcomes :
          AttemptAt(now, c, current_time[c], attempt[c] + 1,
                  NextDelay(retry_delay[c]), all_projects[c], out,
                  calls[c], delay[c], hist[c])

Next ==
    \/ \E t \in Instants : Tick(t)
    \/ \E k \in Keys, v \in KeyValues : save_config(k, v)
    \/ \E c \in Callers, frc \in BOOLEAN : fetch_projects(c, frc)
    \/ \E c \in Callers : fetch_projects_resume(c)

Spec == Init /\ [][Next]_vars

(***************************************************************************)
(* is_on_hold: the hold-date parser.                                       *)
(***************************************************************************)
\* int() of a string of digits
RECURSIVE NumVal(_)
NumVal(str) ==
    IF str = <<>> THEN 0
    ELSE 10 * NumVal(SubSeq(str, 1, Len(str) - 1)) + DigitVal[str[Len(str)]]

\* str.count(ch)
RECURSIVE count(_, _)
count(str, ch) ==
    IF str = <<>> THEN 0
    ELSE (IF Head(str) = ch THEN 1 ELSE 0) + count(Tail(str), ch)

\* The first index i >= p with str[i] outside class, or Len(str) + 1: where a
\* greedy run of the class that starts at p ends.
RECURSIVE RunEnd(_, _, _)
RunEnd(str, p, class) ==
    IF p > Len(str) \/ str[p] \notin class THEN p ELSE RunEnd(str, p + 1, class)

NoMatch == [ok |-> FALSE, date_str |-> <<>>, initials |-> <<>>, stop |-> 0]

(***************************************************************************)
(* hold\s+(\d{1,2}/\d{1,2}(?:/\d{2,4})?)\s+[/]*(\w+)[/]* matched at index  *)
(* p.  Every repetition is greedy and is followed by a character its class *)
(* excludes, so backtracking into a shorter repetition never succeeds: a   *)
(* run is taken whole or the match fails.  stop is the index after the     *)
(* match.                                                                  *)
(***************************************************************************)
HoldCore(str, p) ==
    LET n   == Len(str)
        s1  == p + 4
        d1  == RunEnd(str, s1, Spaces)
        sl1 == RunEnd(str, d1, Digits)
        d2  == sl1 + 1
        e2  == RunEnd(str, d2, Digits)
        hasYear == e2 <= n /\ str[e2] = "/"
        d3  == e2 + 1
        e3  == RunEnd(str, d3, Digits)
        de  == IF hasYear THEN e3 ELSE e2
        s2  == RunEnd(str, de, Spaces)
        w   == RunEnd(str, s2, Slashes)
        we  == RunEnd(str, w, WordChars)
    IN  IF /\ p + 3 <= n
           /\ SubSeq(str, p, p + 3) = <<"h", "o", "l", "d">>
           /\ d1 > s1
           /\ sl1 - d1 \in 1..2
           /\ sl1 <= n
           /\ str[sl1] = "/"
           /\ e2 - d2 \in 1..2
           /\ (hasYear => e3 - d3 \in 2..4)
           /\ s2 > de
           /\ we > w
        THEN [ok |-> TRUE, date_str |-> SubSeq(str, d1, de - 1),
              initials |-> SubSeq(str, w, we - 1),
              stop |-> RunEnd(str, we, Slashes)]
        ELSE NoMatch

\* (?:.*?\s)? taken: the lazy .*? stops at the first white space, at or after
\* index p and on the line of p, that HoldCore follows.
RECURSIVE WithPrefix(_, _)
WithPrefix(str, e) ==
    IF e > Len(str) THEN NoMatch
    ELSE LET core == HoldCore(str, e + 1)
         IN  IF str[e] \in Spaces /\ core.ok THEN core
             ELSE IF str[e] = "\n" THEN NoMatch
             ELSE WithPrefix(str, e + 1)

\* hold_pattern matched at index p: the optional group is tried before the
\* match without it.
MatchAt(str, p) ==
    LET grouped == WithPrefix(str, p)
    IN  IF grouped.ok THEN grouped ELSE HoldCore(str, p)

\* hold_pattern.finditer(notes) from index p on: the matches from left to
\* right, each search starting where the last match stopped.
RECURSIVE finditer(_, _)
finditer(str, p) ==
    IF p > Len(str) THEN <<>>
    ELSE LET match == MatchAt(str, p)
         IN  IF match.ok THEN <<match>> \o finditer(str, match.stop)
             ELSE finditer(str, p + 1)

IsLeap(y) == (y % 4 = 0 /\ y % 100 # 0) \/ y % 400 = 0

DaysIn(y, m) ==
    IF m = 2 THEN (IF IsLeap(y) THEN 29 ELSE 28)
    ELSE IF m \in {4, 6, 9, 11} THEN 30 ELSE 31

\* datetime(y, m, d) raises ValueError unless this holds.
ValidDate(y, m, d) == y \in 1..9999 /\ m \in 1..12 /\ d \in 1..DaysIn(y, m)

\* The fields of a date token: the digits between the slashes.
Field(str, k) ==
    LET a == IF k = 1 THEN 1
             ELSE 1 + CHOOSE i \in 1..Len(str) :
                        str[i] = "/" /\ count(SubSeq(str, 1, i), "/") = k - 1
    IN  SubSeq(str, a, RunEnd(str, a, Digits) - 1)

\* datetime.strptime(date_str, fmt).date(), None for a ValueError.  %m and %d
\* take one or two digits, %Y exactly four, %y exactly two (69-99 are 19xx,
\* 00-68 are 20xx); without a year the year is 1900.
strptime(date_str, fmt) ==
    LET m  == NumVal(Field(date_str, 1))
        d  == NumVal(Field(date_str, 2))
        ys == Field(date_str, 3)
        yy == NumVal(ys)
        y  == IF fmt = "%m/%d" THEN 1900
              ELSE IF fmt = "%m/%d/%Y" THEN yy
              ELSE IF yy >= 69 THEN 1900 + yy ELSE 2000 + yy
        shape == IF fmt = "%m/%d" THEN count(date_str, "/") = 1
                 ELSE IF fmt = "%m/%d/%Y" THEN count(date_str, "/") = 2 /\ Len(ys) = 4
                 ELSE count(date_str, "/") = 2 /\ Len(ys) = 2
    IN  IF shape /\ ValidDate(y, m, d) THEN Some([y |-> y, m |-> m, d |-> d])
        ELSE None

\* Lines 252-275: the date of a hold entry, None when a ValueError is caught.
HoldDate(date_str) ==
    IF count(date_str, "/") = 1
    THEN IF strptime(date_str, "%m/%d") = None THEN None
         ELSE Some([Val(strptime(date_str, "%m/%d")) EXCEPT !.y = today.y])
    ELSE IF strptime(date_str, "%m/%d/%Y") # None
    THEN strptime(date_str, "%m/%d/%Y")
    ELSE strptime(date_str, "%m/%d/%y")

\* a >= b for dates
DateGE(a, b) ==
    \/ a.y > b.y
    \/ a.y = b.y /\ a.m > b.m
    \/ a.y = b.y /\ a.m = b.m /\ a.d >= b.d

\* Line 249: the entry is one of the user's.
SameInitials(initials, user_initials) == upper(initials) = upper(user_initials)

\* Line 271: a hold that ends today or later hides the project.
Holds(hold_date) == DateGE(hold_date, today)

\* Lines 246-277 with a bug: an entry of the user whose date does not parse
\* ends the scan.
RECURSIVE HoldLoop_StopsAtBadDate(_, _)
HoldLoop_StopsAtBadDate(matches, user_initials) ==
    IF matches = <<>> THEN FALSE
    ELSE IF ~SameInitials(Head(matches).initials, user_initials)
    THEN HoldLoop_StopsAtBadDate(Tail(matches), user_initials)
    ELSE IF HoldDate(Head(matches).date_str) = None
    THEN FALSE
    ELSE Holds(Val(HoldDate(Head(matches).date_str)))

\* Lines 246-277: the loop over the matches.
RECURSIVE HoldLoop(_, _)
HoldLoop(matches, user_initials) ==
    IF matches = <<>> THEN FALSE
    ELSE IF ~SameInitials(Head(matches).initials, user_initials)
    THEN HoldLoop(Tail(matches), user_initials)
    ELSE IF HoldDate(Head(matches).date_str) = None
    THEN HoldLoop(Tail(matches), user_initials)
    ELSE Holds(Val(HoldDate(Head(matches).date_str)))

\* AsanaClient.is_on_hold
is_on_hold(proj) ==
    IF ~Truthy(proj.notes) THEN FALSE
    ELSE IF ~Truthy(config["initials"]) THEN FALSE
    ELSE HoldLoop(finditer(Val(proj.notes), 1), Val(config["initials"]))

(***************************************************************************)
(* The inputs of is_on_hold: notes made of up to MaxDirectives hold        *)
(* entries as users type them and as add_note writes them, the viewer's    *)
(* initials, and the day of the evaluation.                                *)
(***************************************************************************)
Leads      == {<<>>, <<" ">>, <<"\n">>}
HoldWords  == {<<"h", "o", "l", "d">>, <<"H", "o", "l", "d">>}
DateTokens == {<<"0", "1", "/", "3", "1", "/", "3", "0">>,
               <<"0", "1", "/", "3", "1", "/", "2", "0">>,
               <<"1", "3", "/", "0", "1", "/", "3", "0">>}
Marks      == {<<>>, <<"/", "/", "/">>}
InitialsTokens == {<<"A", "J", "P">>, <<"X", "Y", "Z">>, <<"a", "j", "p">>}
Viewers    == {None, Some(<<"A", "J", "P">>), Some(<<"X", "Y", "Z">>)}
Days       == {[y |-> 2026, m |-> 11, d |-> 6], [y |-> 2030, m |-> 1, d |-> 31]}

Entries ==
    {l \o w \o <<" ">> \o dt \o <<" ">> \o k \o i :
        l \in Leads, w \in HoldWords, dt \in DateTokens, k \in Marks,
        i \in InitialsTokens}

RECURSIVE NotesUpTo(_)
NotesUpTo(n) ==
    IF n = 0 THEN {<<>>}
    ELSE NotesUpTo(n - 1) \cup {x \o e : x \in NotesUpTo(n - 1), e \in Entries}

HoldInit ==
    /\ remote = Desc(0)
    /\ config \in {[AllSet EXCEPT !["initials"] = v] : v \in Viewers}
    /\ ClientInit
    /\ project \in {[notes |-> None]}
                   \cup {[notes |-> Some(x)] : x \in NotesUpTo(MaxDirectives)}
    /\ today \in Days
    /\ held = None
    /\ shown = None
    /\ remote_notes = <<>>
    /\ added = None
    /\ remote_color = <<>>
    /\ changed = None

\* The filter asks whether the project is on hold.
CallIsOnHold ==
    /\ held = None
    /\ held' = Some(is_on_hold(project))
    /\ UNCHANGED <<envVars, ncalls, cacheVars, callerVars, force, last, refreshed,
                   project, today, shown, noteVars>>

HoldNext == CallIsOnHold

SpecHold == HoldInit /\ [][HoldNext]_vars

(***************************************************************************)
(* filter_projects and display_projects: the views over the snapshot.      *)
(* A project dict is a record [gid, name, color, notes, created_at].       *)
(***************************************************************************)
\* AsanaClient.colors: user-facing name -> internal name and display colour.
colors ==
    ("purple" :> [name |-> "light-purple", color |-> "#CD95EA"])
    @@ ("dark-purple" :> [name |-> "dark-purple", color |-> "#9E97E7"])
    @@ ("yellow" :> [name |-> "dark-brown", color |-> "#F8DF72"])
    @@ ("orange" :> [name |-> "dark-orange", color |-> "#EC8D71"])
    @@ ("blue" :> [name |-> "light-blue", color |-> "#4573D2"])
    @@ ("light-blue" :> [name |-> "dark-teal", color |-> "#9EE7E3"])
    @@ ("light-teal" :> [name |-> "light-teal", color |-> "#4ECBC4"])
    @@ ("coral" :> [name |-> "light-red", color |-> "#FC979A"])
    @@ ("hot-pink" :> [name |-> "dark-pink", color |-> "#F26FB2"])
    @@ ("light-pink" :> [name |-> "light-pink", color |-> "#F9AAEF"])
    @@ ("black" :> [name |-> "light-warm-gray", color |-> "#6D6E6F"])

\* One entry of AsanaClient.page_configs, with the defaults that
\* config.get(.., False) gives to the keys an entry leaves out.
PageConfig(cs, dates, ifsp, other) ==
    [colors |-> cs, with_dates |-> dates, ifsp_only |-> ifsp, is_other |-> other]

\* AsanaClient.page_configs (title, types and users play no part in filtering).
page_configs ==
    ("andrew" :> PageConfig(<<"blue">>, FALSE, FALSE, FALSE))
    @@ ("babynet" :> PageConfig(<<"orange">>, FALSE, FALSE, FALSE))
    @@ ("barbara" :> PageConfig(<<"yellow">>, FALSE, FALSE, FALSE))
    @@ ("deadlines" :> PageConfig(<<"purple", "dark-purple">>, TRUE, FALSE, FALSE))
    @@ ("ifsp" :> PageConfig(<<"purple", "dark-purple">>, FALSE, TRUE, FALSE))
    @@ ("insurance" :> PageConfig(<<"hot-pink", "light-pink">>, FALSE, FALSE, FALSE))
    @@ ("needs-scheduling" :> PageConfig(<<"purple", "dark-purple">>, FALSE, FALSE, FALSE))
    @@ ("questionnaires" :> PageConfig(<<"coral">>, FALSE, FALSE, FALSE))
    @@ ("questionnaires-sent" :> PageConfig(<<"black">>, FALSE, FALSE, FALSE))
    @@ ("other" :> PageConfig(<<>>, FALSE, FALSE, TRUE))

Range(seq) == {seq[i] : i \in 1..Len(seq)}

\* The page configurations whose colours count as used elsewhere (line 315).
ColorPages ==
    {k \in DOMAIN page_configs :
        page_configs[k].colors # <<>> /\ ~page_configs[k].is_other}

\* Lines 313-317 with a bug: the user-facing names are collected.
used_colors_ByName ==
    UNION {Range(page_configs[k].colors) : k \in ColorPages}

\* Lines 313-317: the internal colours of every page that is not `other'.
used_colors ==
    UNION {{colors[c].name : c \in Range(page_configs[k].colors)} : k \in ColorPages}

\* re.search(r"\d{1,2}.\d{1,2}(.\d{1,4})?", name): one or two digits, any
\* character but a newline, a digit.
HasDatePattern(name) ==
    \E i \in 1..Len(name) :
        /\ name[i] \in Digits
        /\ \/ /\ i + 2 <= Len(name)
              /\ name[i + 1] # "\n"
              /\ name[i + 2] \in Digits
           \/ /\ i + 3 <= Len(name)
              /\ name[i + 1] \in Digits
              /\ name[i + 2] # "\n"
              /\ name[i + 3] \in Digits

\* AsanaClient.has_ifsp: \bIFSP\b in the upper-cased notes.
has_ifsp(proj) ==
    IF ~Truthy(proj.notes) THEN FALSE
    ELSE LET u == upper(Val(proj.notes))
         IN  \E i \in 1..Len(u) :
                /\ i + 3 <= Len(u)
                /\ SubSeq(u, i, i + 3) = <<"I", "F", "S", "P">>
                /\ (i = 1 \/ u[i - 1] \notin WordChars)
                /\ (i + 4 > Len(u) \/ u[i + 4] \notin WordChars)

\* A list object the call creates: it is none of the lists that exist.
NewList(items) == [obj |-> 0, items |-> items]

\* Line 310 with a bug: the list handed in is reused when nothing is on hold.
NotHeld_Reuse(projects) ==
    IF \A i \in 1..Len(projects.items) : ~is_on_hold(projects.items[i])
    THEN projects
    ELSE NewList(SelectSeq(projects.items, LAMBDA p : ~is_on_hold(p)))

\* Line 310: filtered = [p for p in projects if not self.is_on_hold(p)]
NotHeld(projects) ==
    NewList(SelectSeq(projects.items, LAMBDA p : ~is_on_hold(p)))

\* Line 309 with a bug: the projects that are not on hold are counted.
HeldCount_NotHeld(projects) ==
    Len(SelectSeq(projects.items, LAMBDA p : ~is_on_hold(p)))

\* Line 309: held_projects = sum(1 for p in projects if self.is_on_hold(p))
HeldCount(projects) == Len(SelectSeq(projects.items, LAMBDA p : is_on_hold(p)))

\* Lines 312-322 with a bug: the colour is compared with the user-facing names.
ColorStage_ByName(filtered, cols, is_other) ==
    IF is_other
    THEN NewList(SelectSeq(filtered.items, LAMBDA p : p.color \notin used_colors))
    ELSE IF Truthy(cols)
    THEN NewList(SelectSeq(filtered.items, LAMBDA p : p.color \in Range(Val(cols))))
    ELSE filtered

\* Lines 312-322: the colour stage.  An unknown user-facing name raises
\* KeyError at line 321.
ColorStage(filtered, cols, is_other) ==
    IF is_other
    THEN NewList(SelectSeq(filtered.items, LAMBDA p : p.color \notin used_colors))
    ELSE IF Truthy(cols)
    THEN LET internal_colors ==
                 {colors[c].name : c \in Range(Val(cols)) \cap DOMAIN colors}
         IN  NewList(SelectSeq(filtered.items, LAMBDA p : p.color \in internal_colors))
    ELSE filtered

UnknownColor(cols, is_other) ==
    /\ ~is_other
    /\ Truthy(cols)
    /\ \E c \in Range(Val(cols)) : c \notin DOMAIN colors

\* Lines 324-329
DateStage(filtered, with_dates) ==
    IF with_dates
    THEN NewList(SelectSeq(filtered.items, LAMBDA p : HasDatePattern(p.name)))
    ELSE filtered

\* Lines 331-332
IfspStage(filtered, ifsp_only) ==
    IF ifsp_only THEN NewList(SelectSeq(filtered.items, LAMBDA p : has_ifsp(p)))
    ELSE filtered

\* AsanaClient.filter_projects: what it returns, or that it raised.
filter_projects(projects, cols, with_dates, ifsp_only, is_other) ==
    IF projects.items = <<>>
    THEN [raised |-> FALSE, filtered |-> NewList(<<>>), held_projects |-> 0]
    ELSE IF UnknownColor(cols, is_other)
    THEN [raised |-> TRUE, filtered |-> NewList(<<>>), held_projects |-> 0]
    ELSE [raised |-> FALSE,
          filtered |-> IfspStage(DateStage(ColorStage(NotHeld(projects), cols, is_other),
                                           with_dates), ifsp_only),
          held_projects |-> HeldCount(projects)]

\* list.sort(key=lambda p: p["created_at"]) with a bug: equal keys change places.
RECURSIVE sort_TiesReversed(_)
sort_TiesReversed(items) ==
    IF items = <<>> THEN <<>>
    ELSE LET x    == items[Len(items)]
             rest == sort_TiesReversed(SubSeq(items, 1, Len(items) - 1))
             k    == Len(SelectSeq(rest, LAMBDA p : p.created_at < x.created_at))
         IN  SubSeq(rest, 1, k) \o <<x>> \o SubSeq(rest, k + 1, Len(rest))

\* list.sort(key=lambda p: p["created_at"]): ascending and stable.
RECURSIVE sort(_)
sort(items) ==
    IF items = <<>> THEN <<>>
    ELSE LET x    == items[Len(items)]
             rest == sort(SubSeq(items, 1, Len(items) - 1))
             k    == Len(SelectSeq(rest, LAMBDA p : p.created_at <= x.created_at))
         IN  SubSeq(rest, 1, k) \o <<x>> \o SubSeq(rest, k + 1, Len(rest))

\* The arguments list_colors hands to display_projects for a page (lines 841-855).
PageArgs(k) ==
    [cols |-> Some(IF page_configs[k].is_other THEN <<>> ELSE page_configs[k].colors),
     with_dates |-> page_configs[k].with_dates,
     ifsp_only |-> page_configs[k].ifsp_only,
     is_other |-> page_configs[k].is_other]

\* Arguments of filter_projects that no page uses: the defaults, a date-only
\* and a keyword-only view, the user-facing name light-blue, names the colour
\* table lacks, and a complement with more settings.
OtherArgs ==
    {[cols |-> None, with_dates |-> d, ifsp_only |-> i, is_other |-> FALSE] :
        d \in BOOLEAN, i \in BOOLEAN}
    \cup {[cols |-> Some(c), with_dates |-> FALSE, ifsp_only |-> FALSE, is_other |-> FALSE] :
            c \in {<<"light-blue">>, <<"teal">>, <<"blue", "teal">>}}
    \cup {[cols |-> Some(<<"teal">>), with_dates |-> TRUE, ifsp_only |-> FALSE,
           is_other |-> TRUE]}

ViewArgs == {PageArgs(k) : k \in DOMAIN page_configs} \cup OtherArgs

\* What a call showed: its arguments and its outcome, and whether it is the
\* first application of the view (nth = 1) or a repeated one (nth = 2).
Shown(op, a, srt, found, r, out) ==
    [op |-> op, args |-> a, sort_by_creation |-> srt, found |-> found,
     raised |-> r.raised, filtered |-> out, held_count |-> r.held_projects,
     nth |-> IF shown # None /\ Val(shown).op = op
                /\ Val(shown).sort_by_creation = srt /\ Val(shown).args = a
             THEN 2 ELSE 1]

\* A call of client.filter_projects on the cached snapshot.
CallFilter(a) ==
    /\ cached_projects # None
    /\ \E r \in {filter_projects(Val(cached_projects), a.cols, a.with_dates,
                                  a.ifsp_only, a.is_other)} :
          shown' = Some(Shown("filter", a, FALSE, TRUE, r, r.filtered))
    /\ UNCHANGED <<envVars, ncalls, cacheVars, callerVars, force, last, refreshed,
                   project, today, held, noteVars>>

\* display_projects: fetch_projects is served from the fresh cache and returns
\* the cached list; the filtered list is sorted in place.  A list is one
\* object: sorting the list that is the cache sorts the cache.
display_projects(a, sort_by_creation) ==
    /\ CacheHit(FALSE, now)
    /\ \E projects \in {Val(cached_projects)} :
          IF projects.items = <<>>
          THEN /\ shown' = Some(Shown("display", a, sort_by_creation, FALSE,
                                      [raised |-> FALSE, held_projects |-> 0],
                                      NewList(<<>>)))
               /\ UNCHANGED cached_projects
          ELSE \E r \in {filter_projects(projects, a.cols, a.with_dates, a.ifsp_only,
                                         a.is_other)} :
               \E out \in {IF sort_by_creation /\ ~r.raised
                           THEN [r.filtered EXCEPT !.items = sort(@)]
                           ELSE r.filtered} :
                  /\ shown' = Some(Shown("display", a, sort_by_creation, TRUE, r, out))
                  /\ cached_projects' =
                         IF sort_by_creation /\ ~r.raised /\ out.obj = projects.obj
                         THEN Some(out)
                         ELSE cached_projects
    /\ UNCHANGED <<envVars, ncalls, last_fetch_time, fetched_with, callerVars, force, last,
                   refreshed, project, today, held, noteVars>>

\* The project dicts of the snapshots: held and not held for AJP, with and
\* without a date in the name, with and without IFSP, in used and unused
\* colours, created in and out of order and at the same time.
Catalogue ==
    {[gid |-> 1, name |-> <<"J", "o", " ", "1", "/", "2">>, color |-> "light-blue",
      notes |-> Some(<<"h", "o", "l", "d", " ", "0", "1", "/", "3", "1", "/", "3", "0",
                       " ", "A", "J", "P">>),
      created_at |-> 3],
     [gid |-> 2, name |-> <<"A", "l">>, color |-> "dark-teal",
      notes |-> Some(<<"I", "F", "S", "P">>), created_at |-> 1],
     [gid |-> 3, name |-> <<"Z", "o", " ", "3", "-", "4">>, color |-> "light-green",
      notes |-> None, created_at |-> 1],
     [gid |-> 4, name |-> <<"P", "a", "l">>, color |-> "light-purple",
      notes |-> Some(<<" ", "h", "o", "l", "d", " ", "1", "3", "/", "1", " ", "A", "J",
                       "P", " ", "h", "o", "l", "d", " ", "1", "/", "1", "/", "3", "0",
                       " ", "a", "j", "p">>),
      created_at |-> 2],
     [gid |-> 5, name |-> <<"H", "a", "l", " ", "1", "2">>, color |-> "light-blue",
      notes |-> Some(<<"i", "f", "s", "p", " ", "h", "o", "l", "d", " ", "1", "/", "3",
                       "2", " ", "A", "J", "P">>),
      created_at |-> 2]}

RECURSIVE SeqsUpTo(_, _)
SeqsUpTo(S, n) ==
    IF n = 0 THEN {<<>>}
    ELSE SeqsUpTo(S, n - 1)
         \cup {Append(x, e) : x \in {y \in SeqsUpTo(S, n - 1) : Len(y) = n - 1}, e \in S}

\* A fresh snapshot of up to MaxSnapshot projects is cached, for each viewer.
FilterInit ==
    /\ remote = Desc(0)
    /\ config \in {[AllSet EXCEPT !["initials"] = v] : v \in Viewers}
    /\ StartOfCalls
    /\ cached_projects \in {Some([obj |-> 1, items |-> x]) : x \in SeqsUpTo(Catalogue, MaxSnapshot)}
    /\ last_fetch_time = Some(0)
    /\ fetched_with = Some(Credentials)
    /\ refreshed = TRUE
    /\ project = [notes |-> None]
    /\ today = [y |-> 2026, m |-> 11, d |-> 6]
    /\ held = None
    /\ shown = None
    /\ remote_notes = <<>>
    /\ added = None
    /\ remote_color = <<>>
    /\ changed = None

\* A page is opened with any of the views, and then reloaded
\* (ui.navigate.reload): the same view is applied again.
Views == IF shown = None THEN ViewArgs ELSE {Val(shown).args}

FilterNext ==
    \/ \E a \in Views : CallFilter(a)
    \/ \E a \in Views, srt \in BOOLEAN : display_projects(a, srt)

SpecFilter == FilterInit /\ [][FilterNext]_vars

(***************************************************************************)
(* Hold entries with dates that parse and dates that do not: one project   *)
(* with notes of up to MaxDirectives entries is the snapshot; is_on_hold   *)
(* is asked about it and filter_projects is applied to the snapshot.       *)
(***************************************************************************)
SkipDates == {<<"0", "1", "/", "3", "1", "/", "3", "0">>,
              <<"0", "1", "/", "3", "1", "/", "2", "0">>,
              <<"1", "3", "/", "0", "1", "/", "3", "0">>,
              <<"0", "1", "/", "3", "2", "/", "3", "0">>}

SkipEntries ==
    {l \o <<"h", "o", "l", "d", " ">> \o dt \o <<" ">> \o i :
        l \in {<<>>, <<" ">>}, dt \in SkipDates,
        i \in {<<"A", "J", "P">>, <<"X", "Y", "Z">>}}

RECURSIVE SkipNotes(_)
SkipNotes(n) ==
    IF n = 0 THEN {<<>>}
    ELSE SkipNotes(n - 1) \cup {x \o e : x \in SkipNotes(n - 1), e \in SkipEntries}

SkipInit ==
    /\ remote = Desc(0)
    /\ config = [AllSet EXCEPT !["initials"] = Some(<<"A", "J", "P">>)]
    /\ StartOfCalls
    /\ project \in {[gid |-> 1, name |-> <<"A", "l">>, color |-> "light-blue",
                      notes |-> Some(x), created_at |-> 1] :
                         x \in SkipNotes(MaxDirectives)}
    /\ cached_projects = Some([obj |-> 1, items |-> <<project>>])
    /\ last_fetch_time = Some(0)
    /\ fetched_with = Some(Credentials)
    /\ refreshed = TRUE
    /\ today \in Days
    /\ held = None
    /\ shown = None
    /\ remote_notes = <<>>
    /\ added = None
    /\ remote_color = <<>>
    /\ changed = None

SkipNext ==
    \/ CallIsOnHold
    \/ \E a \in {PageArgs("andrew"), PageArgs("other")} : shown = None /\ CallFilter(a)

SpecSkip == SkipInit /\ [][SkipNext]_vars

(***************************************************************************)
(* add_note: the note line, the place where it goes, and the two remote    *)
(* calls.  add_note makes blocking calls and runs from entry to return.    *)
(***************************************************************************)

\* The position of the first "\n" of str at or after position i, or 0.
RECURSIVE find(_, _)
find(str, i) ==
    IF i > Len(str) THEN 0
    ELSE IF str[i] = "\n" THEN i
    ELSE find(str, i + 1)

\* str.split("\n")
RECURSIVE split(_)
split(str) ==
    LET i == find(str, 1)
    IN  IF i = 0 THEN <<str>>
        ELSE <<SubSeq(str, 1, i - 1)>> \o split(SubSeq(str, i + 1, Len(str)))

\* "\n".join(lines)
RECURSIVE join(_)
join(lines) ==
    IF lines = <<>> THEN <<>>
    ELSE IF Len(lines) = 1 THEN lines[1]
    ELSE lines[1] \o <<"\n">> \o join(Tail(lines))

\* The characters str.strip() removes.
Whitespace == {" ", "\n", "\t", "\r"}

\* line.strip(): the line without its leading and trailing whitespace.
RECURSIVE strip(_)
strip(line) ==
    IF line = <<>> THEN <<>>
    ELSE IF Head(line) \in Whitespace THEN strip(Tail(line))
    ELSE IF line[Len(line)] \in Whitespace THEN strip(SubSeq(line, 1, Len(line) - 1))
    ELSE line

DigitChar(n) == CHOOSE c \in Digits : DigitVal[c] = n

\* datetime.now().strftime("%m/%d")
strftime(day) ==
    <<DigitChar(day.m \div 10), DigitChar(day.m % 10), "/",
      DigitChar(day.d \div 10), DigitChar(day.d % 10)>>

\* Lines 392-396 with a bug: no space between the text and the slashes.
NoteLine_NoSpace(new_note) ==
    strftime(today) \o <<" ">> \o new_note
    \o (IF Truthy(config["initials"])
        THEN <<"/", "/", "/">> \o Val(config["initials"])
        ELSE <<>>)

\* Lines 392-396: the line add_note writes for the text it is given.
NoteLine(new_note) ==
    strftime(today) \o <<" ">> \o new_note
    \o (IF Truthy(config["initials"])
        THEN <<" ", "/", "/", "/">> \o Val(config["initials"])
        ELSE <<>>)

\* Lines 404-407 with a bug: every line is scanned, not the first five.
blank_line_index_AnyLine(notes_by_line) ==
    LET blank == {i \in 1..Len(notes_by_line) : strip(notes_by_line[i]) = <<>>}
    IN  IF blank = {} THEN None
        ELSE Some((CHOOSE i \in blank : \A j \in blank : i <= j) - 1)

\* Lines 404-407: the index (from 0) of the first blank line among the first
\* five lines, or None.
blank_line_index(notes_by_line) ==
    LET first5 == SubSeq(notes_by_line, 1, IF Len(notes_by_line) < 5
                                           THEN Len(notes_by_line) ELSE 5)
        blank  == {i \in 1..Len(first5) : strip(first5[i]) = <<>>}
    IN  IF blank = {} THEN None
        ELSE Some((CHOOSE i \in blank : \A j \in blank : i <= j) - 1)

\* list.insert(i, x) for 0 <= i <= len(list)
insert(list, i, x) == SubSeq(list, 1, i) \o <<x>> \o SubSeq(list, i + 1, Len(list))

\* Lines 401-414: the notes add_note sends for the notes it fetched.
new_notes(current_notes, line) ==
    LET notes_by_line == split(current_notes)
        at == blank_line_index(notes_by_line)
    IN  join(insert(notes_by_line, IF at # None THEN Val(at) + 1 ELSE 0, line))

\* What the remote source does with a call: it serves it, or rejects it
\* (ApiException).
RemoteAnswers == {"ok", "rejected"}

\* One call of the remote source: the operation, the project, and the fields
\* of the update's body.
RemoteCall(op, gid, body) == [op |-> op, gid |-> gid, body |-> body]

\* AsanaClient.fetch_project with a bug: the project is taken from the cached
\* snapshot.
fetch_project_FromCache(project_gid, answer) ==
    IF ~CanFetch THEN [value |-> None, calls |-> <<>>]
    ELSE [value |-> IF answer = "rejected" \/ cached_projects = None THEN None
                    ELSE LET p == Val(cached_projects).items[project_gid]
                         IN  Some([gid |-> project_gid, notes |-> Val(p.notes)]),
          calls |-> <<RemoteCall("get_project", project_gid, <<>>)>>]

\* AsanaClient.fetch_project: the project dict or None, and the remote calls
\* it made.
fetch_project(project_gid, answer) ==
    IF ~CanFetch THEN [value |-> None, calls |-> <<>>]
    ELSE [value |-> IF answer = "rejected" THEN None
                    ELSE Some([gid |-> project_gid, notes |-> remote_notes[project_gid]]),
          calls |-> <<RemoteCall("get_project", project_gid, <<>>)>>]

\* AsanaClient.replace_notes: what it returns, what the remote notes are after
\* it, and the remote calls it made.
replace_notes(new_note, project_gid, answer) ==
    IF ~CanFetch THEN [result |-> None, notes |-> remote_notes, calls |-> <<>>]
    ELSE [result |-> IF answer = "rejected"
                     THEN Some("Exception when calling ProjectsApi->update_project")
                     ELSE Some("Note added."),
          notes |-> IF answer = "rejected" THEN remote_notes
                    ELSE [remote_notes EXCEPT ![project_gid] = new_note],
          calls |-> <<RemoteCall("update_project", project_gid,
                                 <<<<"notes", new_note>>>>)>>]

\* What a call of add_note did: nth counts the calls, fetch and update are
\* the remote's answers ("none" for a call that was not made), calls are the
\* remote calls in order, returned is the value add_note handed to its caller.
Added(new_note, gid, fetch, update, log, returned) ==
    [nth |-> IF added = None THEN 1 ELSE Val(added).nth + 1,
     new_note |-> new_note, gid |-> gid, line |-> NoteLine(new_note),
     before |-> remote_notes[gid],
     fetch |-> fetch, update |-> update, calls |-> log, returned |-> returned]

\* AsanaClient.add_note with a bug: a served update drops the stamp of the
\* cache, so that the next fetch_projects refreshes.
add_note_DropsStamp(new_note, project_gid, fetched, updated) ==
    /\ (IF added = None THEN 0 ELSE Val(added).nth) < MaxNotes
    /\ IF ~CanFetch
       THEN /\ added' = Some(Added(new_note, project_gid, "none", "none", <<>>, None))
            /\ UNCHANGED <<remote_notes, cacheVars>>
       ELSE \E current_project \in {fetch_project(project_gid, fetched)} :
            IF current_project.value = None
            THEN /\ added' = Some(Added(new_note, project_gid, fetched, "none",
                                        current_project.calls, None))
                 /\ UNCHANGED <<remote_notes, cacheVars>>
            ELSE \E r \in {replace_notes(new_notes(Val(current_project.value).notes,
                                                   NoteLine(new_note)),
                                         project_gid, updated)} :
                    /\ added' = Some(Added(new_note, project_gid, fetched, updated,
                                           current_project.calls \o r.calls, None))
                    /\ remote_notes' = r.notes
                    /\ cached_projects' = cached_projects
                    /\ last_fetch_time' = IF updated = "ok" THEN None ELSE last_fetch_time
                    /\ fetched_with' = fetched_with
    /\ force' = None
    /\ last' = NoCall
    /\ UNCHANGED <<envVars, ncalls, callerVars, refreshed,
                   holdVars, remote_color, changed>>

\* AsanaClient.add_note.  The function has no return statement after line
\* 390: it returns None on every path, and drops what replace_notes returns.
add_note(new_note, project_gid, fetched, updated) ==
    /\ (IF added = None THEN 0 ELSE Val(added).nth) < MaxNotes
    /\ IF ~CanFetch
       THEN /\ added' = Some(Added(new_note, project_gid, "none", "none", <<>>, None))
            /\ UNCHANGED remote_notes
       ELSE \E current_project \in {fetch_project(project_gid, fetched)} :
            IF current_project.value = None
            THEN /\ added' = Some(Added(new_note, project_gid, fetched, "none",
                                        current_project.calls, None))
                 /\ UNCHANGED remote_notes
            ELSE \E r \in {replace_notes(new_notes(Val(current_project.value).notes,
                                                   NoteLine(new_note)),
                                         project_gid, updated)} :
                    /\ added' = Some(Added(new_note, project_gid, fetched, updated,
                                           current_project.calls \o r.calls, None))
                    /\ remote_notes' = r.notes
    /\ force' = None
    /\ last' = NoCall
    /\ UNCHANGED <<envVars, ncalls, cacheVars, callerVars, refreshed,
                   holdVars, remote_color, changed>>

\* What a call of change_color did.
Changed(new_color, gid, update, log, returned) ==
    [new_color |-> new_color, gid |-> gid, before |-> remote_color[gid],
     update |-> update, calls |-> log, returned |-> returned]

\* Lines 373-376 with a bug: a name the colour table lacks is sent as it is.
internal_color_AsGiven(new_color) ==
    Some(IF new_color \in DOMAIN colors THEN colors[new_color].name ELSE new_color)

\* Lines 373-376: self.colors.get(new_color), then its "name".
internal_color(new_color) ==
    IF new_color \in DOMAIN colors THEN Some(colors[new_color].name) ELSE None

\* AsanaClient.change_color
change_color(new_color, project_gid, updated) ==
    /\ IF ~CanFetch
       THEN /\ changed' = Some(Changed(new_color, project_gid, "none", <<>>, None))
            /\ UNCHANGED remote_color
       ELSE IF internal_color(new_color) = None
       THEN /\ changed' = Some(Changed(new_color, project_gid, "none", <<>>,
                                       Some(<<"Invalid color: ", new_color>>)))
            /\ UNCHANGED remote_color
       ELSE \E log \in {<<RemoteCall("update_project", project_gid,
                                     <<<<"color", Val(internal_color(new_color))>>>>)>>} :
            IF updated = "rejected"
            THEN /\ changed' = Some(Changed(new_color, project_gid, updated, log,
                       Some(<<"Exception when calling ProjectsApi->update_project">>)))
                 /\ UNCHANGED remote_color
            ELSE /\ changed' = Some(Changed(new_color, project_gid, updated, log,
                       Some(<<"Color changed to ", new_color>>)))
                 /\ remote_color' =
                        [remote_color EXCEPT ![project_gid] = Val(internal_color(new_color))]
    /\ force' = None
    /\ last' = NoCall
    /\ UNCHANGED <<envVars, ncalls, cacheVars, callerVars, refreshed,
                   holdVars, remote_notes, added>>

\* The lines of the notes a project has before add_note: empty, a space,
\* or the number of the line.
LinesAt(i) == {<<>>, <<" ">>, <<DigitChar(i)>>}

RECURSIVE LinesUpTo(_)
LinesUpTo(n) ==
    IF n = 0 THEN {<<>>}
    ELSE LinesUpTo(n - 1)
         \cup {Append(x, l) : x \in {y \in LinesUpTo(n - 1) : Len(y) = n - 1},
                              l \in LinesAt(n)}

\* The texts the dialogs hand to add_note: a note typed in the one-line input
\* field (line 926), and a hold with the date of the date picker (line 948).
NoteTexts == {<<"o", "k">>, <<"h", "o", "l", "d", " ", "0", "1", "/", "3", "1", "/", "3", "0">>}

\* A project with notes of up to MaxLines lines, and a client that is
\* configured or lacks the token.
NoteInit ==
    /\ remote = Desc(0)
    /\ config \in {[AllSet EXCEPT !["initials"] = Some(<<"A", "J", "P">>)],
                   [AllSet EXCEPT !["token"] = None]}
    /\ ClientInit
    /\ project = [notes |-> None]
    /\ today = [y |-> 2026, m |-> 11, d |-> 6]
    /\ held = None
    /\ shown = None
    /\ remote_notes \in {<<join(x)>> : x \in LinesUpTo(MaxLines) \ {<<>>}}
    /\ added = None
    /\ remote_color = <<"light-blue">>
    /\ changed = None

NoteNext ==
    \E t \in NoteTexts, f \in RemoteAnswers, u \in RemoteAnswers : add_note(t, 1, f, u)

SpecNote == NoteInit /\ [][NoteNext]_vars

(***************************************************************************)
(* The mutations next to the cache: add_note and change_color on the       *)
(* projects of a fresh snapshot, with reads of the cache (fetch_projects   *)
(* without force, filter_projects) in between.                             *)
(***************************************************************************)

\* The projects the remote source has, as the snapshot has them.
Listed ==
    <<[gid |-> 1, name |-> <<"J", "o", " ", "1", "/", "2">>, color |-> "light-blue",
       notes |-> Some(<<>>), created_at |-> 1],
      [gid |-> 2, name |-> <<"A", "l">>, color |-> "dark-purple",
       notes |-> Some(<<"A", "\n", "\n", "L", "1">>), created_at |-> 2]>>

Gids == DOMAIN Listed

\* The names the colour menu and its callers hand to change_color (lines
\* 906-922), and a name the colour table lacks.
ColorNames == {"yellow", "light-blue", "teal"}

MutateInit ==
    /\ remote = Desc(0)
    /\ config \in {[AllSet EXCEPT !["initials"] = Some(<<"A", "J", "P">>)],
                   [AllSet EXCEPT !["token"] = None]}
    /\ StartOfCalls
    /\ cached_projects = Some([obj |-> 1, items |-> Listed])
    /\ last_fetch_time = Some(0)
    /\ fetched_with = Some(Credentials)
    /\ refreshed = TRUE
    /\ project = [notes |-> None]
    /\ today = [y |-> 2026, m |-> 11, d |-> 6]
    /\ held = None
    /\ shown = None
    /\ remote_notes = [g \in Gids |-> Val(Listed[g].notes)]
    /\ added = None
    /\ remote_color = [g \in Gids |-> Listed[g].color]
    /\ changed = None

\* A hold is added to either project (add_hold), the colour of the second is
\* changed, and the cache is read within cache_duration of its refresh.
MutateNext ==
    \/ \E t \in {x \in NoteTexts : Len(x) > 2}, g \in Gids,
          f \in RemoteAnswers, u \in RemoteAnswers :
          add_note(t, g, f, u)
    \/ \E n \in ColorNames, u \in RemoteAnswers : change_color(n, 2, u)
    \/ \E c \in Callers : fetch_projects(c, FALSE)
    \/ CallFilter([cols |-> None, with_dates |-> FALSE, ifsp_only |-> FALSE,
                   is_other |-> FALSE])

SpecMutate == MutateInit /\ [][MutateNext]_vars

(***************************************************************************)
(* The date-pattern stage: one project with a name of up to MaxName        *)
(* characters, or one of the two names of the documentation.               *)
(***************************************************************************)
NameChars == {"3", "a", "/", "\n"}

RECURSIVE NamesUpTo(_)
NamesUpTo(n) ==
    IF n = 0 THEN {<<>>}
    ELSE NamesUpTo(n - 1)
         \cup {Append(x, c) : x \in {y \in NamesUpTo(n - 1) : Len(y) = n - 1},
                              c \in NameChars}

Names ==
    NamesUpTo(MaxName)
    \cup {<<"S", "m", "i", "t", "h", ",", " ", "J", "o", "h", "n">>,
          <<"S", "m", "i", "t", "h", ",", " ", "J", "o", "h", "n", " ", "3", "/", "4">>}

DatesInit ==
    /\ remote = Desc(0)
    /\ config = [AllSet EXCEPT !["initials"] = Some(<<"A", "J", "P">>)]
    /\ StartOfCalls
    /\ cached_projects \in
          {Some([obj |-> 1,
                 items |-> <<[gid |-> 1, name |-> n, color |-> "light-purple",
                              notes |-> Some(<<>>), created_at |-> 1]>>]) : n \in Names}
    /\ last_fetch_time = Some(0)
    /\ fetched_with = Some(Credentials)
    /\ refreshed = TRUE
    /\ project = [notes |-> None]
    /\ today = [y |-> 2026, m |-> 11, d |-> 6]
    /\ held = None
    /\ shown = None
    /\ remote_notes = <<>>
    /\ added = None
    /\ remote_color = <<>>
    /\ changed = None

\* The page deadlines, and the date requirement alone.
DatesNext ==
    \E a \in {PageArgs("deadlines"),
              [cols |-> None, with_dates |-> TRUE, ifsp_only |-> FALSE,
               is_other |-> FALSE]} :
        shown = None /\ CallFilter(a)

SpecDates == DatesInit /\ [][DatesNext]_vars

(***************************************************************************)
(* The settings dialog and the cache: a configured client whose token and  *)
(* workspace are saved anew (_save_settings, lines 590-603, calls          *)
(* save_config for every key and then fetch_projects without force), while *)
(* fetch_projects is called and time passes.                               *)
(***************************************************************************)
\* The tokens and workspace identifiers typed into the dialog.
ConfigValues == {<<"x">>, <<"y">>}

ConfigInit ==
    /\ remote \in Listings
    /\ config = AllSet
    /\ ClientInit
    /\ project = [notes |-> None]
    /\ today = [y |-> 2026, m |-> 11, d |-> 6]
    /\ held = None
    /\ shown = None
    /\ remote_notes = <<>>
    /\ added = None
    /\ remote_color = <<>>
    /\ changed = None

ConfigNext ==
    \/ \E t \in Instants : Tick(t)
    \/ \E k \in {"token", "workspace"}, v \in ConfigValues : save_config(k, v)
    \/ \E c \in Callers, frc \in BOOLEAN : fetch_projects(c, frc)
    \/ \E c \in Callers : fetch_projects_resume(c)

SpecConfig == ConfigInit /\ [][ConfigNext]_vars

(***************************************************************************)
(* The hold dialog and the hold parser: add_hold (lines 936-953) passes    *)
(* add_note the text "hold " and the picked date in the mask MM/DD/YY, and *)
(* is_on_hold is asked about the line add_note built.                      *)
(***************************************************************************)
\* hold_input.value: the picked date in the mask "MM/DD/YY".
hold_input_value(day) ==
    <<DigitChar(day.m \div 10), DigitChar(day.m % 10), "/",
      DigitChar(day.d \div 10), DigitChar(day.d % 10), "/",
      DigitChar((day.y % 100) \div 10), DigitChar(day.y % 10)>>

\* The text add_hold gives add_note (line 949).
HoldText(day) == <<"h", "o", "l", "d", " ">> \o hold_input_value(day)

\* The dates picked: before, on and after each of Days, in the same year and
\* in another one.
HoldDates ==
    {[y |-> 2025, m |-> 12, d |-> 31], [y |-> 2026, m |-> 11, d |-> 5],
     [y |-> 2026, m |-> 11, d |-> 6],  [y |-> 2026, m |-> 11, d |-> 7],
     [y |-> 2030, m |-> 1, d |-> 30],  [y |-> 2030, m |-> 1, d |-> 31],
     [y |-> 2031, m |-> 1, d |-> 1]}

\* The initials configured: none, empty, upper case and lower case (the
\* environment is read as it is, line 139).
RoundViewers == {None, Some(<<>>), Some(<<"A", "J", "P">>), Some(<<"a", "j", "p">>)}

RoundInit ==
    /\ remote = Desc(0)
    /\ config \in {[AllSet EXCEPT !["initials"] = v] : v \in RoundViewers}
    /\ ClientInit
    /\ project = [notes |-> None]
    /\ today \in Days
    /\ held = None
    /\ shown = None
    /\ remote_notes = <<(<<>>)>>
    /\ added = None
    /\ remote_color = <<"light-blue">>
    /\ changed = None

\* add_hold's submit: add_note with the hold text.
add_hold(day, fetched, updated) ==
    /\ held = None
    /\ add_note(HoldText(day), 1, fetched, updated)

\* is_on_hold is asked about a project whose notes are the line built.
CallIsOnHoldOfLine ==
    /\ added # None
    /\ held = None
    /\ project' = [notes |-> Some(Val(added).line)]
    /\ held' = Some(is_on_hold(project'))
    /\ UNCHANGED <<envVars, ncalls, cacheVars, callerVars, force, last, refreshed,
                   today, shown, noteVars>>

RoundNext ==
    \/ \E day \in HoldDates, f \in RemoteAnswers, u \in RemoteAnswers :
            add_hold(day, f, u)
    \/ CallIsOnHoldOfLine

SpecRound == RoundInit /\ [][RoundNext]_vars

(***************************************************************************)
(* What a step of Spec did, read off the two states of the step.           *)
(***************************************************************************)
\* A fetch_projects call was entered.
Entered == force' # None

\* A call returned to its caller in the step.
Returned ==
    \/ \E c \in Callers : pc[c] = "sleeping" /\ pc'[c] = "idle"
    \/ Entered /\ \A c \in Callers : pc'[c] = pc[c]

\* The force argument of the call entered in the step.
EnteredForce == Val(force')

\* The cache holds a snapshot younger than cache_duration.
Fresh ==
    /\ cached_projects # None
    /\ last_fetch_time # None
    /\ now - Val(last_fetch_time) < cache_duration

\* 1 + 2 + .. : the total backoff after n attempts that were retried.
RECURSIVE Backoff(_)
Backoff(n) == IF n = 0 THEN 0 ELSE 2 * Backoff(n - 1) + 1

(***************************************************************************)
(* C1.  A call with force = false made while a snapshot exists and is      *)
(* younger than cache_duration returns at once, makes no remote call,      *)
(* returns the cached list object itself and leaves cached_projects and    *)
(* last_fetch_time unchanged.                                              *)
(***************************************************************************)
C1_FreshHitIsServedFromCache ==
    [][(Entered /\ ~EnteredForce /\ Fresh) =>
          /\ Returned
          /\ last'.calls = 0
          /\ last'.delay = 0
          /\ last'.result = cached_projects
          /\ UNCHANGED cacheVars]_vars

\* A non-forced call was served from a snapshot that is one time unit short
\* of cache_duration old.
C1_Witness ==
    /\ last.hit
    /\ force = Some(FALSE)
    /\ last.calls = 0
    /\ last.result = cached_projects
    /\ last.result # None
    /\ now - Val(last_fetch_time) = cache_duration - 1

(***************************************************************************)
(* C2.  A fetch_projects call that ends in failure (returns None) never    *)
(* changes cached_projects or last_fetch_time: neither the step in which   *)
(* it returns nor any step in which a call is suspended changes them.      *)
(***************************************************************************)
C2_FailedRefreshKeepsCache ==
    [][/\ (Returned /\ last'.result = None) => UNCHANGED cacheVars
       /\ ~Returned => UNCHANGED cacheVars]_vars

\* A refresh failed on its third 503 while a snapshot was cached.
C2_Witness ==
    /\ last.result = None
    /\ last.hist = <<UNAVAILABLE, UNAVAILABLE, UNAVAILABLE>>
    /\ cached_projects # None
    /\ last_fetch_time # None

(***************************************************************************)
(* C3.  A refresh makes at most max_retries = 3 listing attempts: a call   *)
(* is suspended only after attempt 1 (for 1 time unit) or attempt 2 (for 2 *)
(* time units), every wake-up makes the next attempt, and the third        *)
(* attempt returns.  Two 503s and a success give a snapshot after a total  *)
(* delay of 3; three 503s give None after a total delay of 3.              *)
(***************************************************************************)
C3_RetryBackoff ==
    /\ [](\A c \in Callers :
            pc[c] = "sleeping" =>
               /\ calls[c] \in 1..(max_retries - 1)
               /\ attempt[c] = calls[c] - 1
               /\ retry_delay[c] = Backoff(calls[c]) - Backoff(calls[c] - 1)
               /\ delay[c] = Backoff(calls[c]))
    /\ [](/\ last.calls <= max_retries
          /\ last.calls = Len(last.hist)
          /\ (last.calls > 0 => last.delay = Backoff(last.calls - 1))
          /\ (last.hist = <<UNAVAILABLE, UNAVAILABLE, 0>> =>
                last.result # None /\ last.delay = 3)
          /\ (last.hist = <<UNAVAILABLE, UNAVAILABLE, UNAVAILABLE>> =>
                last.result = None /\ last.delay = 3))
    /\ [][\A c \in Callers :
            (pc[c] = "sleeping" /\ hist'[c] # hist[c]) =>
               \/ pc'[c] = "idle"
               \/ pc'[c] = "sleeping" /\ attempt'[c] = attempt[c] + 1]_vars

\* A refresh succeeded on its third attempt after two 503s.
C3_Witness ==
    /\ last.hist = <<UNAVAILABLE, UNAVAILABLE, 0>>
    /\ last.result # None
    /\ last.delay = 3

(***************************************************************************)
(* C4.  After a successful refresh the installed snapshot is exactly the   *)
(* remote listing: every listed project once, in listing order.            *)
(***************************************************************************)
C4_SnapshotIsTheListing ==
    [][(Returned /\ last'.result # None /\ ~last'.hit) =>
          /\ cached_projects' = last'.result
          /\ Val(cached_projects').items = Flatten(remote)]_vars

(***************************************************************************)
(* C5.  Refreshes are serialized: at most one call is between its first    *)
(* listing attempt and its return at any time.                             *)
(***************************************************************************)
C5_RefreshesAreSerialized ==
    Cardinality({c \in Callers : pc[c] = "sleeping"}) <= 1

(***************************************************************************)
(* C6.  last_fetch_time is absent exactly when no refresh has completed    *)
(* successfully, and cached_projects is absent exactly when                *)
(* last_fetch_time is.                                                     *)
(***************************************************************************)
C6_StampAndSnapshotTogether ==
    /\ last_fetch_time = None <=> ~refreshed
    /\ cached_projects = None <=> last_fetch_time = None

\* A refresh has succeeded, and a later call has failed.
C6_Witness ==
    /\ refreshed
    /\ cached_projects # None
    /\ last_fetch_time # None
    /\ last.result = None
    /\ last.calls > 0

(***************************************************************************)
(* C7.  An ApiException whose status is not 503 ends the call: it is the   *)
(* outcome of the call's last attempt, the call returns None, no listing   *)
(* call follows it and no delay is added for it.                           *)
(***************************************************************************)
C7_OtherErrorsAreNotRetried ==
    /\ \A c \in Callers : \A i \in 1..Len(hist[c]) : hist[c][i] = UNAVAILABLE
    /\ \A i \in 1..Len(last.hist) :
          last.hist[i] = SERVER_ERROR =>
             /\ i = Len(last.hist)
             /\ last.calls = i
             /\ last.result = None
             /\ last.delay = Backoff(i - 1)

\* A refresh was retried after a 503 and then ended by a 500.
C7_Witness ==
    /\ last.hist = <<UNAVAILABLE, SERVER_ERROR>>
    /\ last.result = None
    /\ last.calls = 2
    /\ last.delay = 1

(***************************************************************************)
(* C8.  A call that is not a fresh cache hit and finds token, workspace or *)
(* initials missing returns None at once, with no remote call and no       *)
(* delay; a fresh cache hit is served also when one of them is missing.    *)
(***************************************************************************)
C8_NotConfigured ==
    [][(Entered /\ ~is_configured) =>
          /\ Returned
          /\ last'.calls = 0
          /\ last'.delay = 0
          /\ UNCHANGED cacheVars
          /\ last'.result = IF ~EnteredForce /\ Fresh THEN cached_projects
                            ELSE None]_vars

\* With a snapshot cached and the configuration incomplete, a call that was
\* no cache hit returned None without a remote call.
C8_Witness ==
    /\ ~is_configured
    /\ cached_projects # None
    /\ last.caller \in Callers
    /\ ~last.hit
    /\ last.result = None
    /\ last.calls = 0

(***************************************************************************)
(* The hold directives of a notes text, as the grammar of the parser       *)
(* defines them (the word hold, a date token, an initials token), from     *)
(* left to right.                                                          *)
(***************************************************************************)
RECURSIVE Directives(_, _)
Directives(str, p) ==
    IF p > Len(str) THEN <<>>
    ELSE LET dir == HoldCore(str, p)
         IN  IF dir.ok THEN <<dir>> \o Directives(str, dir.stop)
             ELSE Directives(str, p + 1)

\* The directives that carry the initials v and a date that parses.
OwnDated(str, v) ==
    SelectSeq(Directives(str, 1),
              LAMBDA dir : SameInitials(dir.initials, v) /\ HoldDate(dir.date_str) # None)

\* The notes without the directives that carry other initials than v.
RECURSIVE WithoutOthers(_, _, _)
WithoutOthers(str, p, v) ==
    IF p > Len(str) THEN <<>>
    ELSE LET dir == HoldCore(str, p)
         IN  IF ~dir.ok THEN <<str[p]>> \o WithoutOthers(str, p + 1, v)
             ELSE (IF SameInitials(dir.initials, v)
                   THEN SubSeq(str, p, dir.stop - 1) ELSE <<>>)
                  \o WithoutOthers(str, dir.stop, v)

\* is_on_hold was called with notes and with initials configured.
HoldDecided ==
    /\ held # None
    /\ Truthy(project.notes)
    /\ Truthy(config["initials"])

(***************************************************************************)
(* C9.  is_on_hold is decided by the first hold directive, from left to    *)
(* right, that carries the viewer's initials and a date that parses: the   *)
(* project is held exactly if that date is today or later.                 *)
(***************************************************************************)
C9_FirstOwnDirectiveDecides ==
    HoldDecided =>
        LET own == OwnDated(Val(project.notes), Val(config["initials"]))
        IN  Val(held) = (/\ own # <<>>
                         /\ DateGE(Val(HoldDate(Head(own).date_str)), today))

(***************************************************************************)
(* C10.  Directives that carry other reviewers' initials do not affect the *)
(* viewer: is_on_hold returns what it returns for the notes without them.  *)
(***************************************************************************)
C10_OthersDirectivesAreIgnored ==
    HoldDecided =>
        Val(held) =
            is_on_hold([notes |->
                Some(WithoutOthers(Val(project.notes), 1, Val(config["initials"])))])

\* str.lower() on the letters of the notes.
LowerOf == [ch \in Uppers |-> CHOOSE lo \in Lowers : UpperOf[lo] = ch]

lower(str) ==
    [i \in 1..Len(str) |-> IF str[i] \in Uppers THEN LowerOf[str[i]] ELSE str[i]]

(***************************************************************************)
(* C11.  A hold directive is recognized regardless of letter case, in the  *)
(* word hold and in the initials: is_on_hold returns for the notes what it *)
(* returns for the same notes in lower case.                               *)
(***************************************************************************)
C11_CaseDoesNotMatter ==
    HoldDecided =>
        Val(held) = is_on_hold([notes |-> Some(lower(Val(project.notes)))])

\* The entries of the notes that carry the initials v, whatever their date.
Own(str, v) ==
    SelectSeq(Directives(str, 1), LAMBDA dir : SameInitials(dir.initials, v))

(***************************************************************************)
(* C12.  An entry of the viewer whose date does not parse is skipped and   *)
(* the scan goes on: when the viewer's first entry has such a date,        *)
(* is_on_hold returns, and its answer is that of the viewer's first entry  *)
(* whose date parses (held exactly if that date is today or later, not     *)
(* held when there is none); filter_projects over the snapshot with these  *)
(* notes returns normally and counts and hides the project accordingly.    *)
(***************************************************************************)
C12_BadDateIsSkipped ==
    LET str    == Val(project.notes)
        v      == Val(config["initials"])
        dated  == OwnDated(str, v)
        expect == /\ dated # <<>>
                  /\ DateGE(Val(HoldDate(Head(dated).date_str)), today)
    IN  (Own(str, v) # <<>> /\ HoldDate(Head(Own(str, v)).date_str) = None) =>
           /\ held # None => Val(held) = expect
           /\ shown # None =>
                 /\ ~Val(shown).raised
                 /\ Val(shown).held_count = (IF expect THEN 1 ELSE 0)
                 /\ expect => Val(shown).filtered.items = <<>>
                 /\ (~expect /\ Val(shown).args.is_other) =>
                        Val(shown).filtered.items = <<>>
                 /\ (~expect /\ ~Val(shown).args.is_other) =>
                        Val(shown).filtered.items = <<project>>

\* The viewer's first entry has month 13 or day 32, a later entry of the
\* viewer holds the project, and both is_on_hold and filter_projects said so.
C12_Witness ==
    /\ Own(Val(project.notes), Val(config["initials"])) # <<>>
    /\ HoldDate(Head(Own(Val(project.notes), Val(config["initials"]))).date_str) = None
    /\ held = Some(TRUE)
    /\ shown # None
    /\ ~Val(shown).raised
    /\ Val(shown).held_count = 1

(***************************************************************************)
(* What a call of filter_projects or display_projects returned normally    *)
(* for a snapshot with projects in it.                                     *)
(***************************************************************************)
Snapshot == Val(cached_projects).items

Returned_View ==
    /\ shown # None
    /\ Val(shown).found
    /\ ~Val(shown).raised
    /\ Snapshot # <<>>

Visible == Val(shown).filtered.items

\* The list is as filter_projects returned it: no sort was applied to it.
Filtered_View == Returned_View /\ ~Val(shown).sort_by_creation

\* The snapshot's projects that are not on hold for the viewer, in order.
NotOnHold == SelectSeq(Snapshot, LAMBDA p : ~is_on_hold(p))

(***************************************************************************)
(* C13.  For every view that returns and every snapshot with projects in   *)
(* it, the list filter_projects returns holds no project that is on hold   *)
(* for the viewer, and held_count is the number of held projects of the    *)
(* whole snapshot, whatever the colour, date, keyword and complement       *)
(* settings of the view.                                                   *)
(***************************************************************************)
C13_HeldAreHiddenAndCounted ==
    /\ (shown # None /\ \E k \in DOMAIN page_configs : Val(shown).args = PageArgs(k))
           => ~Val(shown).raised
    /\ Returned_View =>
           /\ \A i \in 1..Len(Visible) : ~is_on_hold(Visible[i])
           /\ Val(shown).held_count = Len(Snapshot) - Len(NotOnHold)

\* The complement view showed a project and counted a held one that its
\* colour stage would not show.
C13_Witness ==
    /\ Returned_View
    /\ Val(shown).args.is_other
    /\ Val(shown).held_count = 1
    /\ Len(Visible) = 1
    /\ \E i \in 1..Len(Snapshot) :
          is_on_hold(Snapshot[i]) /\ Snapshot[i].color \in used_colors

\* A project's colour is one of those the names of page k stand for.
InColorSet(p, k) ==
    \E i \in 1..Len(page_configs[k].colors) :
        colors[page_configs[k].colors[i]].name = p.color

\* The views that are not the complement.
ColorSetPages == {k \in DOMAIN page_configs : ~page_configs[k].is_other}

\* The view has no date and no keyword setting.
ColorOnly(a) == ~a.with_dates /\ ~a.ifsp_only

(***************************************************************************)
(* C14.  The complement view shows exactly the not-held projects whose     *)
(* internal colour is outside the union of the internal colours of all     *)
(* non-complement views, and a colour-set view without other settings      *)
(* shows exactly the not-held projects of its colours: a not-held project  *)
(* passes the colour stage of the complement or of a colour-set view,      *)
(* never both.                                                             *)
(***************************************************************************)
C14_ComplementOfTheColorViews ==
    Filtered_View =>
        /\ Val(shown).args = PageArgs("other") =>
              Visible = SelectSeq(NotOnHold,
                                  LAMBDA p : \A k \in ColorSetPages : ~InColorSet(p, k))
        /\ \A k \in ColorSetPages :
              Val(shown).args = PageArgs(k) =>
                  LET mine == SelectSeq(NotOnHold, LAMBDA p : InColorSet(p, k))
                  IN  /\ ColorOnly(PageArgs(k)) => Visible = mine
                      /\ Range(Visible) \subseteq Range(mine)

\* The complement showed the light-green project and not the light-blue one,
\* which is not on hold.
C14_Witness ==
    /\ Filtered_View
    /\ Val(shown).args = PageArgs("other")
    /\ Len(Visible) = 1
    /\ Visible[1].color = "light-green"
    /\ \E i \in 1..Len(NotOnHold) : NotOnHold[i].color = "light-blue"

(***************************************************************************)
(* C15.  A colour-set view keeps exactly the not-held projects whose       *)
(* colour is the internal identifier of one of the view's user-facing      *)
(* names (and, with a date or keyword setting, no others): the name        *)
(* light-blue selects dark-teal projects, not light-blue ones.             *)
(***************************************************************************)
C15_ColorsAreMatchedByInternalName ==
    (/\ Filtered_View
     /\ ~Val(shown).args.is_other
     /\ Truthy(Val(shown).args.cols)) =>
        LET cols == Val(Val(shown).args.cols)
            mine == SelectSeq(NotOnHold,
                        LAMBDA p : \E i \in 1..Len(cols) : colors[cols[i]].name = p.color)
        IN  /\ ColorOnly(Val(shown).args) => Visible = mine
            /\ Range(Visible) \subseteq Range(mine)

\* The name light-blue showed the dark-teal project and not the light-blue one.
C15_Witness ==
    /\ Filtered_View
    /\ Val(shown).args.cols = Some(<<"light-blue">>)
    /\ Len(Visible) = 1
    /\ Visible[1].color = "dark-teal"
    /\ \E i \in 1..Len(NotOnHold) : NotOnHold[i].color = "light-blue"

(***************************************************************************)
(* C16.  filter_projects with a colour set that holds a user-facing name   *)
(* the colour table lacks ends in an error for every snapshot, the empty   *)
(* one included.                                                           *)
(***************************************************************************)
C16_UnknownColorIsAnError ==
    (/\ shown # None
     /\ Val(shown).op = "filter"
     /\ ~Val(shown).args.is_other
     /\ Truthy(Val(shown).args.cols)
     /\ \E c \in Range(Val(Val(shown).args.cols)) : c \notin DOMAIN colors) =>
        Val(shown).raised

\* The positions of a sequence taken in increasing order.
RECURSIVE InOrder(_, _)
InOrder(seq, I) ==
    IF I = {} THEN <<>>
    ELSE LET i == CHOOSE x \in I : \A y \in I : x <= y
         IN  <<seq[i]>> \o InOrder(seq, I \ {i})

\* The positions of a sequence taken by ascending created_at, and by
\* increasing position where created_at is the same.
RECURSIVE ByCreation(_, _)
ByCreation(seq, I) ==
    IF I = {} THEN <<>>
    ELSE LET i == CHOOSE x \in I : \A y \in I :
                      \/ seq[x].created_at < seq[y].created_at
                      \/ seq[x].created_at = seq[y].created_at /\ x <= y
         IN  <<seq[i]>> \o ByCreation(seq, I \ {i})

(***************************************************************************)
(* C17.  The list filter_projects returns is made of projects taken from   *)
(* the snapshot at distinct positions, in snapshot order; after the sort   *)
(* by creation it is ascending by created_at, and projects with the same   *)
(* created_at are in snapshot order.                                       *)
(***************************************************************************)
C17_SnapshotOrderOrStableSort ==
    Returned_View =>
        \E I \in SUBSET (1..Len(Snapshot)) :
            Visible = IF Val(shown).sort_by_creation
                      THEN ByCreation(Snapshot, I)
                      ELSE InOrder(Snapshot, I)

\* A sorted list whose two projects have the same created_at and are in
\* snapshot order, which is not the order of their gids.
C17_Witness ==
    /\ Returned_View
    /\ Val(shown).sort_by_creation
    /\ Len(Visible) = 2
    /\ Visible[1].created_at = Visible[2].created_at
    /\ Visible[1].gid > Visible[2].gid

\* A sorted list that is not in snapshot order.
C17_Witness_Reordered ==
    /\ Returned_View
    /\ Val(shown).sort_by_creation
    /\ Len(Visible) = 2
    /\ Visible # Snapshot
    /\ Visible[1].created_at < Visible[2].created_at

(***************************************************************************)
(* C18.  A call of filter_projects or display_projects leaves the cached   *)
(* snapshot as it is, the list it returns is not the cached list, and the  *)
(* same view applied again to the same snapshot shows the same projects    *)
(* in the same order with the same count.                                  *)
(***************************************************************************)
C18_SameViewSameOutput ==
    [][(shown' # None /\ shown' # shown) =>
          /\ cached_projects' = cached_projects
          /\ Val(shown').found => Val(shown').filtered.obj # Val(cached_projects).obj
          /\ Val(shown').nth = 2 =>
                [Val(shown') EXCEPT !.nth = 1] = [Val(shown) EXCEPT !.nth = 1]]_vars

\* The default view was applied a second time with the sort, to a snapshot
\* that is not in the order of creation and has no project on hold.
C18_Witness ==
    /\ Returned_View
    /\ Val(shown).nth = 2
    /\ Val(shown).sort_by_creation
    /\ Val(shown).args.cols = None
    /\ Len(Visible) = 2
    /\ Len(Snapshot) = 2
    /\ Snapshot[1].created_at > Snapshot[2].created_at
    /\ Visible # Snapshot

\* add_note fetched the project and its update was served.
Wrote == added # None /\ Val(added).fetch = "ok" /\ Val(added).update = "ok"

\* The remote source rejected the fetch or the update of the last add_note.
Rejected(a) == a.fetch = "rejected" \/ a.update = "rejected"

\* The lines of the notes before the last add_note, and the lines now.
OldLines == split(Val(added).before)

NewLines == split(remote_notes[Val(added).gid])

\* The blank lines (nothing but whitespace) among the first five of old.
BlankInFirstFive(old) ==
    {i \in 1..Len(old) :
        i <= 5 /\ \A j \in 1..Len(old[i]) : old[i][j] \in {" ", "\t"}}

\* How many lines of old are above the new line.
Above(old) ==
    IF BlankInFirstFive(old) = {} THEN 0
    ELSE CHOOSE i \in BlankInFirstFive(old) : \A j \in BlankInFirstFive(old) : i <= j

(***************************************************************************)
(* C19.  An add_note that writes inserts exactly one line, the date, the   *)
(* text and the initials, and keeps every old line in its order: the new   *)
(* line is right after the first blank line among the first five old       *)
(* lines, and is line 0 when none of the first five is blank, even with a  *)
(* blank line further down.                                                *)
(***************************************************************************)
C19_OneLineAfterFirstBlank ==
    Wrote =>
        LET old == OldLines
            new == NewLines
            k   == Above(old)
        IN  /\ Len(new) = Len(old) + 1
            /\ new[k + 1] = Val(added).line
            /\ \A i \in 1..Len(old) : old[i] = new[IF i <= k THEN i ELSE i + 1]

\* The sixth old line is blank and none of the first five is: the new line is
\* line 0.
C19_Witness ==
    /\ Wrote
    /\ Len(OldLines) >= 6
    /\ OldLines[6] = <<>>
    /\ BlankInFirstFive(OldLines) = {}
    /\ NewLines[1] = Val(added).line
    /\ NewLines[7] = <<>>

\* The third old line is the first blank one: the new line is the fourth.
C19_Witness_AfterBlank ==
    /\ Wrote
    /\ Above(OldLines) = 3
    /\ NewLines[4] = Val(added).line

(***************************************************************************)
(* C20.  An add_note whose fetch or update the remote source rejects       *)
(* returns a value that differs from the value a successful add_note       *)
(* returns: here, the value of the rejected call and that of the           *)
(* successful call before it.                                              *)
(***************************************************************************)
C20_FailureIsReturned ==
    [][(/\ Wrote
        /\ added' # added
        /\ Rejected(Val(added'))) =>
            Val(added').returned # Val(added).returned]_vars

\* The client of the last change_color was configured.
Recolored == changed # None /\ CanFetch

(***************************************************************************)
(* C21.  On a configured client, change_color with a name the colour table *)
(* lacks returns the invalid-colour message and makes no remote call; with *)
(* a name of the table it makes exactly one remote call, an update of the  *)
(* given project whose body has the one field color with the internal      *)
(* identifier of the name, and no fetch.                                   *)
(***************************************************************************)
C21_ChangeColorIsOneUpdate ==
    Recolored =>
        LET c == Val(changed) IN
        IF c.new_color \notin DOMAIN colors
        THEN /\ c.returned = Some(<<"Invalid color: ", c.new_color>>)
             /\ c.calls = <<>>
             /\ remote_color[c.gid] = c.before
        ELSE /\ Len(c.calls) = 1
             /\ c.calls[1].op = "update_project"
             /\ c.calls[1].gid = c.gid
             /\ c.calls[1].body = <<<<"color", colors[c.new_color].name>>>>
             /\ c.returned # Some(<<"Invalid color: ", c.new_color>>)

\* The name light-blue was sent as dark-teal for project 2, and served.
C21_Witness ==
    /\ Recolored
    /\ Val(changed).new_color = "light-blue"
    /\ Val(changed).gid = 2
    /\ Val(changed).calls[1].body = <<<<"color", "dark-teal">>>>
    /\ remote_color[2] = "dark-teal"

\* The name teal was refused.
C21_Witness_Invalid ==
    /\ Recolored
    /\ Val(changed).new_color = "teal"
    /\ Val(changed).calls = <<>>

\* One or two digits, a character, one or two digits, somewhere in the name.
\* (The optional third part adds no name.)
DateLike(name) ==
    \E i \in 1..Len(name), w \in 1..2 :
        /\ i + w + 1 <= Len(name)
        /\ \A j \in i..(i + w - 1) : name[j] \in Digits
        /\ name[i + w + 1] \in Digits

(***************************************************************************)
(* C22.  With the date-pattern requirement set, a project is kept if and   *)
(* only if its name has one or two digits, any one character, and a digit  *)
(* again; the character between may be any character at all.               *)
(***************************************************************************)
C22_DatePatternAnySeparator ==
    (Filtered_View /\ Val(shown).args.with_dates) =>
        \A i \in 1..Len(Snapshot) :
            (Snapshot[i] \in Range(Visible)) <=> DateLike(Snapshot[i].name)

\* A call returned in the step with a list it fetched: a refresh succeeded.
Refreshed_Now == Returned /\ last'.result # None /\ ~last'.hit

(***************************************************************************)
(* C23.  When a refresh succeeds, last_fetch_time is the time at which the *)
(* snapshot is installed, also after one or two backoff delays.            *)
(***************************************************************************)
C23_StampIsInstallTime ==
    [][Refreshed_Now => last_fetch_time' = Some(now')]_vars

(***************************************************************************)
(* C25.  last_fetch_time never decreases, whatever the interleaving of the *)
(* fetch_projects calls: each install records a time that is not before    *)
(* the one recorded before it.                                             *)
(***************************************************************************)
C25_StampNeverDecreases ==
    [][last_fetch_time # None =>
          /\ last_fetch_time' # None
          /\ Val(last_fetch_time') >= Val(last_fetch_time)]_vars

\* The remote calls of the last add_note, by operation.
CallsOf(op) == SelectSeq(Val(added).calls, LAMBDA c : c.op = op)

(***************************************************************************)
(* C24.  One add_note makes at most one fetch and at most one update, both *)
(* of the project it was given, the fetch first; it makes no update when   *)
(* the fetch fails; and the notes it sends are the notes the remote source *)
(* had at the fetch, not those of the cached snapshot, with exactly one    *)
(* line inserted.                                                          *)
(***************************************************************************)
C24_FetchThenOneUpdate ==
    added # None =>
        LET a   == Val(added)
            old == split(a.before)
        IN  /\ Len(CallsOf("get_project")) <= 1
            /\ Len(CallsOf("update_project")) <= 1
            /\ \A i \in 1..Len(a.calls) : a.calls[i].gid = a.gid
            /\ a.fetch # "ok" => CallsOf("update_project") = <<>>
            /\ CallsOf("update_project") # <<>> =>
                   /\ a.calls[1].op = "get_project"
                   /\ Len(a.calls) = 2
                   /\ \E k \in 0..Len(old) :
                          a.calls[2].body = <<<<"notes", join(insert(old, k, a.line))>>>>

\* The second add_note for a project wrote notes that have the line of the
\* first, which the cached snapshot lacks.
C24_Witness ==
    /\ added # None
    /\ Val(added).nth = 2
    /\ Val(added).update = "ok"
    /\ Val(added).before # Val(Val(cached_projects).items[Val(added).gid].notes)
    /\ Len(split(remote_notes[Val(added).gid]))
          = Len(split(Val(Val(cached_projects).items[Val(added).gid].notes))) + 2

\* The projects of a list, without its identity.
ItemsOf(list) == Val(list).items

(***************************************************************************)
(* C26.  add_note (with its replace_notes) and change_color leave          *)
(* cached_projects and last_fetch_time as they are: a fetch_projects       *)
(* without force within cache_duration still returns the projects with     *)
(* the notes and colours from before the mutations, and filter_projects    *)
(* still shows a project to which a hold was just added.                   *)
(***************************************************************************)
C26_MutationsLeaveTheCache ==
    [][/\ (added' # added \/ changed' # changed) => UNCHANGED cacheVars
       /\ (Entered /\ ~EnteredForce /\ Fresh) =>
              /\ last'.hit
              /\ ItemsOf(last'.result) = Listed
       /\ shown' # None => ItemsOf(Some(Val(shown').filtered)) = Listed]_vars

\* A hold was added to the first project at the remote source, where it now is
\* on hold for the viewer, and the fetch_projects that followed returned the
\* cached list, in which the project has no notes.
C26_Witness ==
    /\ Wrote
    /\ Val(added).gid = 1
    /\ is_on_hold([notes |-> Some(remote_notes[1])])
    /\ last.hit
    /\ ItemsOf(last.result)[1].notes = Some(<<>>)
    /\ ~is_on_hold(ItemsOf(last.result)[1])

(***************************************************************************)
(* C27.  A fetch_projects call that returns a snapshot returns one that    *)
(* was fetched with the token and the workspace configured at its return:  *)
(* after save_config has changed either of them, no call returns a         *)
(* snapshot fetched with the previous ones.                                *)
(***************************************************************************)
C27_SnapshotIsOfSavedConfig ==
    last.result # None => fetched_with = Some(Credentials)

C28_Witness_Past ==
    /\ held = Some(FALSE)
    /\ Wrote
    /\ \E day \in HoldDates : ~DateGE(day, today) /\ Val(added).new_note = HoldText(day)

(***************************************************************************)
(* C29.  When the notes of the project are empty, the notes add_note       *)
(* writes begin with the new line: no empty line is placed before it.      *)
(***************************************************************************)
C29_EmptyNotesStartWithTheLine ==
    (Wrote /\ Val(added).nth = 1 /\ Val(added).before = <<>>) =>
        NewLines[1] = Val(added).line
====
